---------------------------- MODULE Spec2Model ----------------------------
(***************************************************************************)
(* Model of src/src/main.rs: the gRPC subscription supervisor              *)
(* (run_grpc_subscription / subscribe_once), the classifier                *)
(* (process_update / is_pump_fun_create), the tokio broadcast channel      *)
(* created in main, and the SSE gateway (sse_handler).                     *)
(*                                                                         *)
(* Conventions.  Option<T> is a sequence of length 0 (None) or 1 (Some).   *)
(* Byte strings are sequences of 0..255.  Text is a sequence of tokens:    *)
(* mint / base-58 strings are sequences of one-character strings, log      *)
(* text is a sequence of words chosen so that the substring relations of   *)
(* the markers are kept ("Instruction: CreateV2" is the three words        *)
(* "Instruction: ", "Create", "V2").                                       *)
(***************************************************************************)
EXTENDS Integers, Sequences, FiniteSets, TLC

---------------------------------------------------------------------------
(* Bounds of the model *)

\* number of events the classifier returns during a run
MaxEvents == 4
\* the consecutive-failure counter (a history variable) saturates here
MaxFails == 7
\* capacity asked of broadcast::channel (1000 in main, scaled down)
RequestedCapacity == 2

---------------------------------------------------------------------------
(* Option and text helpers *)

None == << >>

Some(x) == << x >>

IsSome(o) == Len(o) > 0

Unwrap(o) == o[1]

Min(a, b) == IF a <= b THEN a ELSE b

Max(a, b) == IF a >= b THEN a ELSE b

RECURSIVE Pow2(_)
Pow2(n) == IF n = 0 THEN 1 ELSE 2 * Pow2(n - 1)

\* usize::next_power_of_two
RECURSIVE NextPow2From(_, _)
NextPow2From(p, n) == IF p >= n THEN p ELSE NextPow2From(2 * p, n)

next_power_of_two(n) == NextPow2From(1, n)

\* str::contains: needle occurs in hay as a contiguous run
Contains(hay, needle) ==
    \E i \in 0..(Len(hay) - Len(needle)) :
        \A j \in 1..Len(needle) : hay[i + j] = needle[j]

\* str::ends_with
EndsWith(s, suffix) ==
    /\ Len(s) >= Len(suffix)
    /\ \A j \in 1..Len(suffix) : s[Len(s) - Len(suffix) + j] = suffix[j]

\* n copies of c
Repeat(c, n) == [i \in 1..n |-> c]

\* slice::first
First(s) == IF Len(s) = 0 THEN None ELSE Some(s[1])

---------------------------------------------------------------------------
(* bs58::encode(bytes).into_string() *)

Bs58Alphabet ==
    << "1","2","3","4","5","6","7","8","9",
       "A","B","C","D","E","F","G","H","J","K","L","M","N","P","Q","R","S","T","U","V","W","X","Y","Z",
       "a","b","c","d","e","f","g","h","i","j","k","m","n","o","p","q","r","s","t","u","v","w","x","y","z" >>

RECURSIVE LeadingZeros(_, _)
LeadingZeros(bytes, i) ==
    IF i > Len(bytes) \/ bytes[i] # 0 THEN 0 ELSE 1 + LeadingZeros(bytes, i + 1)

RECURSIVE BytesValue(_, _, _)
BytesValue(bytes, i, acc) ==
    IF i > Len(bytes) THEN acc ELSE BytesValue(bytes, i + 1, acc * 256 + bytes[i])

RECURSIVE Base58Digits(_)
Base58Digits(n) ==
    IF n = 0 THEN << >>
    ELSE Append(Base58Digits(n \div 58), Bs58Alphabet[(n % 58) + 1])

bs58_encode(bytes) ==
    Repeat("1", LeadingZeros(bytes, 1)) \o Base58Digits(BytesValue(bytes, 1, 0))

---------------------------------------------------------------------------
(* The classifier *)

pump_fun_program_id == "6EF8rrecthR5Dkzon8Nwu78hRvfCKubJ14M5uBEwF6P"

\* the literal "11111111111111111111111111111111" of process_update
SystemProgramOnes == Repeat("1", 32)

\* std::str::from_utf8(log_messages): Ok(text) or Err
from_utf8(bytes) == IF bytes.utf8 THEN Some(bytes.text) ELSE None

\* line 278
has_pump_fun(log_str) == Contains(log_str, << pump_fun_program_id >>)

\* line 279
is_create(log_str) ==
    /\ Contains(log_str, << "Instruction: ", "Create" >>)
    /\ ~Contains(log_str, << "Create", "V2" >>)

\* line 280
is_create_v2(log_str) == Contains(log_str, << "Instruction: ", "Create", "V2" >>)

\* mutant: the program address is not looked for
is_pump_fun_create_AnyProgram(tx_info) ==
    /\ IsSome(tx_info.transaction)
    /\ IsSome(Unwrap(tx_info.transaction).meta)
    /\ IsSome(Unwrap(Unwrap(tx_info.transaction).meta).log_messages)
    /\ LET decoded == from_utf8(Unwrap(Unwrap(Unwrap(tx_info.transaction).meta).log_messages))
       IN  /\ IsSome(decoded)
           /\ LET log_str == Unwrap(decoded)
              IN  is_create(log_str) \/ is_create_v2(log_str)

is_pump_fun_create(tx_info) ==
    /\ IsSome(tx_info.transaction)
    /\ IsSome(Unwrap(tx_info.transaction).meta)
    /\ IsSome(Unwrap(Unwrap(tx_info.transaction).meta).log_messages)
    /\ LET decoded == from_utf8(Unwrap(Unwrap(Unwrap(tx_info.transaction).meta).log_messages))
       IN  /\ IsSome(decoded)
           /\ LET log_str == Unwrap(decoded)
              IN  has_pump_fun(log_str) /\ (is_create(log_str) \/ is_create_v2(log_str))

\* mutant: the embedded signature list is looked at first
ExtractSignature_EmbeddedFirst(tx) ==
    IF IsSome(tx.transaction) /\ Len(Unwrap(tx.transaction).signatures) > 0
    THEN Some(bs58_encode(Unwrap(tx.transaction).signatures[1]))
    ELSE IF Len(tx.signature) > 0 THEN Some(bs58_encode(tx.signature))
    ELSE None

\* lines 195-205: the signature, or None where the code returns None
ExtractSignature(tx) ==
    IF Len(tx.signature) > 0 THEN Some(bs58_encode(tx.signature))
    ELSE IF IsSome(tx.transaction)
         THEN LET first_sig == First(Unwrap(tx.transaction).signatures)
              IN  IF IsSome(first_sig) THEN Some(bs58_encode(Unwrap(first_sig))) ELSE None
         ELSE None

\* lines 208-220: the creator, or None where the code returns None
ExtractCreator(tx) ==
    IF IsSome(tx.transaction)
    THEN IF IsSome(Unwrap(tx.transaction).message)
         THEN LET first_key == First(Unwrap(Unwrap(tx.transaction).message).account_keys)
              IN  IF IsSome(first_key) THEN Some(bs58_encode(Unwrap(first_key))) ELSE None
         ELSE None
    ELSE None

\* lines 227-229: the set of mints named in the pre-balances
PreMints(pre_balances) ==
    { Unwrap(pre_balances[i].mint) : i \in { j \in 1..Len(pre_balances) : IsSome(pre_balances[j].mint) } }

\* mutant: a mint already named in the pre-balances is kept
RECURSIVE CandidateMints_IgnorePre(_, _, _)
CandidateMints_IgnorePre(post_balances, pre_mints, i) ==
    IF i > Len(post_balances) THEN << >>
    ELSE LET balance == post_balances[i]
             rest    == CandidateMints_IgnorePre(post_balances, pre_mints, i + 1)
         IN  IF /\ IsSome(balance.mint)
                /\ ~Contains(Unwrap(balance.mint), SystemProgramOnes)
             THEN << Unwrap(balance.mint) >> \o rest
             ELSE rest

\* lines 231-238: the candidates, in post-balance order
RECURSIVE CandidateMints(_, _, _)
CandidateMints(post_balances, pre_mints, i) ==
    IF i > Len(post_balances) THEN << >>
    ELSE LET balance == post_balances[i]
             rest    == CandidateMints(post_balances, pre_mints, i + 1)
         IN  IF /\ IsSome(balance.mint)
                /\ Unwrap(balance.mint) \notin pre_mints
                /\ ~Contains(Unwrap(balance.mint), SystemProgramOnes)
             THEN << Unwrap(balance.mint) >> \o rest
             ELSE rest

\* line 241: candidate_mints.iter().find(|m| m.ends_with("pump"))
RECURSIVE FindPump(_, _)
FindPump(candidate_mints, i) ==
    IF i > Len(candidate_mints) THEN None
    ELSE IF EndsWith(candidate_mints[i], << "p", "u", "m", "p" >>) THEN Some(candidate_mints[i])
    ELSE FindPump(candidate_mints, i + 1)

\* lines 223-246: the mint, as an Option
ExtractMint(tx) ==
    IF IsSome(tx.meta)
    THEN LET meta            == Unwrap(tx.meta)
             pre_mints       == PreMints(meta.pre_token_balances)
             candidate_mints == CandidateMints(meta.post_token_balances, pre_mints, 1)
             found           == FindPump(candidate_mints, 1)
         IN  IF IsSome(found) THEN found ELSE First(candidate_mints)
    ELSE None

\* process_update: Some(CreateTransaction) or None
process_update(update) ==
    IF ~IsSome(update.update_oneof) THEN None
    ELSE LET update_oneof == Unwrap(update.update_oneof)
         IN  IF update_oneof.kind # "Transaction" THEN None
             ELSE LET tx_info == update_oneof.tx_info
                  IN  IF ~is_pump_fun_create(tx_info) THEN None
                      ELSE IF ~IsSome(tx_info.transaction) THEN None
                      ELSE LET tx              == Unwrap(tx_info.transaction)
                               signature       == ExtractSignature(tx)
                               creator_address == ExtractCreator(tx)
                               mint_address    == ExtractMint(tx)
                           IN  IF ~IsSome(signature) THEN None
                               ELSE IF ~IsSome(creator_address) THEN None
                               ELSE IF ~IsSome(mint_address) THEN None
                               ELSE Some([ signature       |-> Unwrap(signature),
                                           mint_address    |-> Unwrap(mint_address),
                                           creator_address |-> Unwrap(creator_address),
                                           slot            |-> tx_info.slot ])

---------------------------------------------------------------------------
(* Upstream updates the stream can deliver *)

TxUpdate(slot, log_text, signature, account_keys, pre, post) ==
    [ update_oneof |-> Some([
        kind    |-> "Transaction",
        tx_info |-> [
            slot        |-> slot,
            transaction |-> Some([
                signature   |-> signature,
                transaction |-> Some([ signatures |-> << signature >>,
                                       message    |-> Some([ account_keys |-> account_keys ]) ]),
                meta        |-> Some([ log_messages        |-> Some([ utf8 |-> TRUE, text |-> log_text ]),
                                       pre_token_balances  |-> pre,
                                       post_token_balances |-> post ]) ]) ] ]) ]

\* a Pump.fun create landing in `slot`
CreateUpdate(slot) ==
    TxUpdate(slot,
             << "Program ", pump_fun_program_id, " invoke [1]", "Program log: ", "Instruction: ", "Create" >>,
             << slot >>, << << 7 >> >>, << >>,
             << [ mint |-> Some(<< "A", "p", "u", "m", "p" >>) ] >>)

\* a Pump.fun transaction that is not a create
SwapUpdate ==
    TxUpdate(1,
             << "Program ", pump_fun_program_id, " invoke [1]", "Program log: ", "Instruction: ", "Swap" >>,
             << 9 >>, << << 7 >> >>, << >>,
             << [ mint |-> Some(<< "A", "p", "u", "m", "p" >>) ] >>)

\* an update that is not a transaction (ping, slot, ...)
PingUpdate == [ update_oneof |-> Some([ kind |-> "Ping" ]) ]

\* an update whose oneof is not set
NoUpdate == [ update_oneof |-> None ]

\* what the stream may deliver next once n creates have been read: the creates
\* land in slots 1, 2, ..., so every event of a run is distinct
StreamUpdates(n) == { CreateUpdate(n + 1), SwapUpdate, PingUpdate }

---------------------------------------------------------------------------
(* Updates handed to the classifier: every shape of envelope, log text,      *)
(* signature, account keys and token balances process_update distinguishes   *)

\* longest post-balance list
MaxPost == 2

\* a transaction update with every optional part given by the caller
TxUpdateOf(slot, log_messages, signature, transaction, pre, post) ==
    [ update_oneof |-> Some([
        kind    |-> "Transaction",
        tx_info |-> [
            slot        |-> slot,
            transaction |-> Some([
                signature   |-> signature,
                transaction |-> transaction,
                meta        |-> Some([ log_messages        |-> log_messages,
                                       pre_token_balances  |-> pre,
                                       post_token_balances |-> post ]) ]) ] ]) ]

Utf8(text) == Some([ utf8 |-> TRUE, text |-> text ])

ProgramInvoke == << "Program ", pump_fun_program_id, " invoke [1]", "Program log: " >>

OtherInvoke == << "Program ", "TokenkegQfeZyiNwAJbNbGKPFXCWuBvf9Ss623VQ5DA", " invoke [1]", "Program log: " >>

LogCreate == ProgramInvoke \o << "Instruction: ", "Create" >>

LogCreateV2 == ProgramInvoke \o << "Instruction: ", "Create", "V2" >>

LogSwap == ProgramInvoke \o << "Instruction: ", "Swap" >>

\* no instruction line at all
LogInvokeOnly == ProgramInvoke

\* the creation markers without the program address
LogOtherCreate == OtherInvoke \o << "Instruction: ", "Create" >>

LogOtherCreateV2 == OtherInvoke \o << "Instruction: ", "Create", "V2" >>

\* "Instruction: Create" and, in a later line, "CreateV2" not after "Instruction: "
LogCreateAndBareV2 ==
    ProgramInvoke \o << "Instruction: ", "Create", "Program log: ", "Create", "V2", " pool" >>

\* both instructions in one batch
LogCreateAndCreateV2 ==
    ProgramInvoke \o << "Instruction: ", "Create", "Program log: ", "Instruction: ", "Create", "V2" >>

\* an instruction of another name that begins with Create
LogCreateIdempotent == ProgramInvoke \o << "Instruction: ", "Create", "Idempotent" >>

LogTexts ==
    { LogCreate, LogCreateV2, LogSwap, LogInvokeOnly, LogOtherCreate, LogOtherCreateV2,
      LogCreateAndBareV2, LogCreateAndCreateV2, LogCreateIdempotent }

\* the envelope's direct signature field
DirectSignatures == { << >>, << 9 >> }

\* the embedded transaction: absent, or a signature list and an optional message
EmbeddedTransactions ==
    { None } \cup
    { Some([ signatures |-> sigs, message |-> message ]) :
        sigs \in { << >>, << << 5 >> >>, << << >> >>, << << 5 >>, << 6 >> >> },
        message \in { None } \cup
                    { Some([ account_keys |-> keys ]) :
                        keys \in { << >>, << << 7 >> >>, << << >> >>, << << 7 >>, << 8 >> >> } } }

MintApump == << "A", "p", "u", "m", "p" >>

MintB == << "B" >>

MintCpump == << "C", "p", "u", "m", "p" >>

MintEmpty == << >>

\* a longer address with a run of 32 '1' inside
MintOnesInside == << "Z" >> \o SystemProgramOnes \o << "k" >>

Mints == { MintApump, MintB, MintCpump, MintEmpty, SystemProgramOnes, MintOnesInside }

BalanceEntries == { [ mint |-> None ] } \cup { [ mint |-> Some(m) ] : m \in Mints }

PreLists ==
    { << >>, << [ mint |-> Some(MintB) ], [ mint |-> Some(MintApump) ] >> }
        \cup { << b >> : b \in BalanceEntries }

PostLists == UNION { [ 1..n -> BalanceEntries ] : n \in 0..MaxPost }

\* a complete embedded transaction
FullTransaction ==
    Some([ signatures |-> << << 5 >> >>, message |-> Some([ account_keys |-> << << 7 >> >> ]) ])

\* every log text and envelope, over one new mint
EnvelopeInputs ==
    { TxUpdateOf(slot, Utf8(text), signature, transaction,
                 << >>, << [ mint |-> Some(MintApump) ] >>) :
        slot \in { 0, 5 }, text \in LogTexts, signature \in DirectSignatures,
        transaction \in EmbeddedTransactions }

\* every pair of balance lists, under logs with and without the program address
BalanceInputs ==
    { TxUpdateOf(1, Utf8(text), envelope[1], envelope[2], pre, post) :
        text \in { LogCreate, LogCreateV2, LogOtherCreate },
        envelope \in { << << 9 >>, FullTransaction >>, << << >>, None >> },
        pre \in PreLists, post \in PostLists }

\* updates with a part missing, or logs that are not UTF-8
MalformedInputs ==
    { NoUpdate,
      PingUpdate,
      [ update_oneof |-> Some([ kind |-> "Transaction",
                                tx_info |-> [ slot |-> 1, transaction |-> None ] ]) ],
      [ update_oneof |-> Some([ kind |-> "Transaction",
                                tx_info |-> [ slot |-> 1,
                                              transaction |-> Some([ signature   |-> << 9 >>,
                                                                     transaction |-> FullTransaction,
                                                                     meta        |-> None ]) ] ]) ],
      TxUpdateOf(1, None, << 9 >>, FullTransaction, << >>, << [ mint |-> Some(MintApump) ] >>),
      TxUpdateOf(1, Some([ utf8 |-> FALSE, text |-> LogCreate ]), << 9 >>, FullTransaction,
                 << >>, << [ mint |-> Some(MintApump) ] >>) }

ClassifierInputs == EnvelopeInputs \cup BalanceInputs \cup MalformedInputs

---------------------------------------------------------------------------
(* State *)

VARIABLES
    pc,          \* where the supervisor task is in run_grpc_subscription / subscribe_once
    backoff,     \* run_grpc_subscription's `backoff`, in seconds
    active,      \* calls of subscribe_once in flight (client and streams alive)
    fails,       \* history: consecutive failed attempts since start or the last clean close
    cleanSeen,   \* history: some attempt has ended with a clean close
    prevBackoff, \* history: `backoff` as it was when the last attempt ended (0: none has)
    classified,  \* history: the events process_update returned, in read order
    sent,        \* history: the calls of state.send, with their result
    tail,        \* broadcast Shared.tail: pos and rx_cnt
    buffer,      \* broadcast Shared.buffer: the ring of slots
    rx,          \* per listener: its Receiver (state, next; history: since, the tail at subscribe)
    got,         \* history, per listener: the items its BroadcastStream yielded
    frames,      \* per listener: the frames written to its response body
    probe        \* history: one marked update, whether the stream has delivered it, and
                 \* what process_update returned for it

vars == << pc, backoff, active, fails, cleanSeen, prevBackoff, classified, sent,
           tail, buffer, rx, got, frames, probe >>

supVars == << pc, backoff, active, fails, cleanSeen, prevBackoff >>

busVars == << tail, buffer >>

subVars == << rx, got, frames >>

histVars == << classified, sent, probe >>

\* the HTTP listeners that may connect during a run
Subs == { 1, 2, 3 }

\* broadcast::channel rounds the capacity up to a power of two
Capacity == next_power_of_two(RequestedCapacity)

\* Duration::from_secs(30) of line 93
MaxBackoff == 30

\* Duration::from_secs(1) of lines 80 and 85
InitialBackoff == 1

\* the marked update before the stream has delivered it
Unread(update) == [ update |-> update, read |-> FALSE, result |-> None ]

\* the marked update once process_update has returned create_tx for it
MarkRead(update, create_tx) ==
    IF ~probe.read /\ update = probe.update
    THEN [ update |-> update, read |-> TRUE, result |-> create_tx ]
    ELSE probe

Init ==
    /\ pc = "call"
    /\ backoff = InitialBackoff
    /\ active = 0
    /\ fails = 0
    /\ cleanSeen = FALSE
    /\ prevBackoff = 0
    /\ classified = << >>
    /\ sent = << >>
    \* main line 48: the channel's own receiver is dropped at once
    /\ tail = [ pos |-> 0, rx_cnt |-> 0 ]
    /\ buffer = [ i \in 0..(Capacity - 1) |-> [ pos |-> i - Capacity, val |-> None ] ]
    /\ rx = [ s \in Subs |-> [ state |-> "none", next |-> 0, since |-> 0 ] ]
    /\ got = [ s \in Subs |-> << >> ]
    /\ frames = [ s \in Subs |-> << >> ]
    /\ probe = Unread(NoUpdate)

---------------------------------------------------------------------------
(* The supervisor: run_grpc_subscription and subscribe_once *)

\* line 83: the loop calls subscribe_once
CallSubscribeOnce ==
    /\ pc = "call"
    /\ pc' = "connect"
    /\ active' = active + 1
    /\ UNCHANGED << backoff, fails, cleanSeen, prevBackoff, busVars, subVars, histVars >>

\* mutant: the error leaves run_grpc_subscription (a `?` on subscribe_once)
AttemptFailed_Returns ==
    /\ pc' = "returned"
    /\ active' = active - 1
    /\ backoff' = backoff
    /\ fails' = Min(fails + 1, MaxFails)
    /\ cleanSeen' = cleanSeen
    /\ prevBackoff' = backoff

\* mutant: the failed attempt's client and streams are not dropped
AttemptFailed_Leaks ==
    /\ pc' = "sleeping"
    /\ active' = active
    /\ backoff' = backoff
    /\ fails' = Min(fails + 1, MaxFails)
    /\ cleanSeen' = cleanSeen
    /\ prevBackoff' = backoff

\* lines 88-90 and 92: subscribe_once returned Err; the loop goes to sleep(backoff)
AttemptFailed ==
    /\ pc' = "sleeping"
    /\ active' = active - 1
    /\ backoff' = backoff
    /\ fails' = Min(fails + 1, MaxFails)
    /\ cleanSeen' = cleanSeen
    /\ prevBackoff' = backoff

\* mutant: the Ok arm does not reset backoff
AttemptClosed_NoReset ==
    /\ pc' = "sleeping"
    /\ active' = active - 1
    /\ backoff' = backoff
    /\ fails' = 0
    /\ cleanSeen' = TRUE
    /\ prevBackoff' = backoff

\* lines 84-87 and 92: subscribe_once returned Ok; backoff is reset, then sleep(backoff)
AttemptClosed ==
    /\ pc' = "sleeping"
    /\ active' = active - 1
    /\ backoff' = InitialBackoff
    /\ fails' = 0
    /\ cleanSeen' = TRUE
    /\ prevBackoff' = backoff

\* lines 98-101: build, tls_config, connect
ConnectOk ==
    /\ pc = "connect"
    /\ pc' = "subscribe"
    /\ UNCHANGED << backoff, active, fails, cleanSeen, prevBackoff, busVars, subVars, histVars >>

ConnectErr ==
    /\ pc = "connect"
    /\ AttemptFailed
    /\ UNCHANGED << busVars, subVars, histVars >>

\* line 121: client.subscribe()
SubscribeOk ==
    /\ pc = "subscribe"
    /\ pc' = "send_request"
    /\ UNCHANGED << backoff, active, fails, cleanSeen, prevBackoff, busVars, subVars, histVars >>

SubscribeErr ==
    /\ pc = "subscribe"
    /\ AttemptFailed
    /\ UNCHANGED << busVars, subVars, histVars >>

\* line 129: subscribe_tx.send(request)
SendRequestOk ==
    /\ pc = "send_request"
    /\ pc' = "streaming"
    /\ UNCHANGED << backoff, active, fails, cleanSeen, prevBackoff, busVars, subVars, histVars >>

SendRequestErr ==
    /\ pc = "send_request"
    /\ AttemptFailed
    /\ UNCHANGED << busVars, subVars, histVars >>

\* mutant: a bounded queue that waits for its slowest reader
BroadcastSend_Blocking(value) ==
    /\ \A s \in Subs : rx[s].state = "open" => tail.pos - rx[s].next < Capacity
    /\ sent' = Append(sent, [ val |-> value, ok |-> tail.rx_cnt > 0 ])
    /\ IF tail.rx_cnt = 0
       THEN UNCHANGED << tail, buffer >>
       ELSE /\ buffer' = [ buffer EXCEPT ![tail.pos % Capacity] =
                               [ pos |-> tail.pos, val |-> Some(value) ] ]
            /\ tail' = [ tail EXCEPT !.pos = @ + 1 ]

\* broadcast::Sender::send as called at line 137
BroadcastSend(value) ==
    IF tail.rx_cnt = 0
    THEN /\ sent' = Append(sent, [ val |-> value, ok |-> FALSE ])
         /\ UNCHANGED << tail, buffer >>
    ELSE /\ sent' = Append(sent, [ val |-> value, ok |-> TRUE ])
         /\ buffer' = [ buffer EXCEPT ![tail.pos % Capacity] =
                            [ pos |-> tail.pos, val |-> Some(value) ] ]
         /\ tail' = [ tail EXCEPT !.pos = @ + 1 ]

\* mutant: a failed send is tried again
ReadUpdate_Resends(update) ==
    /\ pc = "streaming"
    /\ LET create_tx == process_update(update)
       IN  /\ probe' = MarkRead(update, create_tx)
           /\ IF IsSome(create_tx)
              THEN /\ Len(classified) < MaxEvents
                   /\ classified' = Append(classified, Unwrap(create_tx))
                   /\ IF tail.rx_cnt = 0
                      THEN /\ sent' = sent \o << [ val |-> Unwrap(create_tx), ok |-> FALSE ],
                                                 [ val |-> Unwrap(create_tx), ok |-> FALSE ] >>
                           /\ UNCHANGED << tail, buffer >>
                      ELSE BroadcastSend(Unwrap(create_tx))
              ELSE UNCHANGED << classified, sent, tail, buffer >>
    /\ UNCHANGED << supVars, subVars >>

\* mutant: an update the classifier rejects ends the attempt like a stream error
ReadUpdate_RejectFails(update) ==
    /\ pc = "streaming"
    /\ LET create_tx == process_update(update)
       IN  /\ probe' = MarkRead(update, create_tx)
           /\ IF IsSome(create_tx)
              THEN /\ Len(classified) < MaxEvents
                   /\ classified' = Append(classified, Unwrap(create_tx))
                   /\ BroadcastSend(Unwrap(create_tx))
                   /\ UNCHANGED supVars
              ELSE /\ AttemptFailed
                   /\ UNCHANGED << classified, sent, tail, buffer >>
    /\ UNCHANGED subVars

\* lines 132-141: one Ok(update) of the stream
ReadUpdate(update) ==
    /\ pc = "streaming"
    /\ LET create_tx == process_update(update)
       IN  /\ probe' = MarkRead(update, create_tx)
           /\ IF IsSome(create_tx)
              THEN /\ Len(classified) < MaxEvents
                   /\ classified' = Append(classified, Unwrap(create_tx))
                   /\ BroadcastSend(Unwrap(create_tx))
              ELSE UNCHANGED << classified, sent, tail, buffer >>
    /\ UNCHANGED << supVars, subVars >>

\* lines 142-145: Err(e) of the stream
StreamErr ==
    /\ pc = "streaming"
    /\ AttemptFailed
    /\ UNCHANGED << busVars, subVars, histVars >>

\* lines 132 and 149: the stream ended; subscribe_once returns Ok(())
StreamEnd ==
    /\ pc = "streaming"
    /\ AttemptClosed
    /\ UNCHANGED << busVars, subVars, histVars >>

\* mutant: the doubling is not capped
SleepElapsed_Uncapped ==
    /\ pc = "sleeping"
    /\ pc' = "call"
    /\ backoff' = backoff * 2
    /\ UNCHANGED << active, fails, cleanSeen, prevBackoff, busVars, subVars, histVars >>

\* lines 92-93: the sleep elapses and backoff doubles up to the cap
SleepElapsed ==
    /\ pc = "sleeping"
    /\ pc' = "call"
    /\ backoff' = Min(backoff * 2, MaxBackoff)
    /\ UNCHANGED << active, fails, cleanSeen, prevBackoff, busVars, subVars, histVars >>

Supervisor ==
    \/ CallSubscribeOnce
    \/ ConnectOk
    \/ ConnectErr
    \/ SubscribeOk
    \/ SubscribeErr
    \/ SendRequestOk
    \/ SendRequestErr
    \/ \E update \in StreamUpdates(Len(classified)) : ReadUpdate(update)
    \/ StreamErr
    \/ StreamEnd
    \/ SleepElapsed

---------------------------------------------------------------------------
(* The listeners: sse_handler over the broadcast channel *)

\* mutant: the new receiver starts at the oldest retained event
broadcast_subscribe_Replay ==
    [ state |-> "open", next |-> Max(0, tail.pos - Capacity), since |-> tail.pos ]

\* Sender::subscribe (line 156): a receiver whose cursor is the tail
broadcast_subscribe == [ state |-> "open", next |-> tail.pos, since |-> tail.pos ]

\* mutant: a delivered event does not advance the cursor
Recv_NoAdvance(next) ==
    LET slot == buffer[next % Capacity]
    IN  IF slot.pos = next
        THEN [ kind |-> "Ok", next |-> next, pos |-> slot.pos, val |-> slot.val ]
        ELSE IF slot.pos + Capacity = next
        THEN [ kind |-> "Empty", next |-> next ]
        ELSE [ kind |-> "Lagged", next |-> tail.pos - Capacity, missed |-> tail.pos - Capacity - next ]

\* mutant: a lag is reported but the cursor stays where it was
Recv_LagKeepsCursor(next) ==
    LET slot == buffer[next % Capacity]
    IN  IF slot.pos = next
        THEN [ kind |-> "Ok", next |-> next + 1, pos |-> slot.pos, val |-> slot.val ]
        ELSE IF slot.pos + Capacity = next
        THEN [ kind |-> "Empty", next |-> next ]
        ELSE [ kind |-> "Lagged", next |-> next, missed |-> tail.pos - Capacity - next ]

\* Receiver::recv as polled by BroadcastStream (line 157), on cursor `next`
Recv(next) ==
    LET slot == buffer[next % Capacity]
    IN  IF slot.pos = next
        THEN [ kind |-> "Ok", next |-> next + 1, pos |-> slot.pos, val |-> slot.val ]
        ELSE IF slot.pos + Capacity = next
        THEN [ kind |-> "Empty", next |-> next ]
        ELSE LET oldest == tail.pos - Capacity
                 missed == oldest - next
             IN  IF missed = 0
                 THEN [ kind |-> "Ok", next |-> next + 1, pos |-> slot.pos, val |-> slot.val ]
                 ELSE [ kind |-> "Lagged", next |-> oldest, missed |-> missed ]

\* serde_json::to_string(&create_tx) (line 162)
ToJson(create_tx) ==
    << << "signature", create_tx.signature >>,
       << "mint_address", create_tx.mint_address >>,
       << "creator_address", create_tx.creator_address >>,
       << "slot", create_tx.slot >> >>

\* format!("data: {}\n\n", json) (line 163)
Frame(create_tx) == << "data: ", ToJson(create_tx), "\n\n" >>

\* lines 152-157: a listener connects and its handler subscribes
Attach(s) ==
    /\ rx[s].state = "none"
    /\ rx' = [ rx EXCEPT ![s] = broadcast_subscribe ]
    /\ tail' = [ tail EXCEPT !.rx_cnt = @ + 1 ]
    /\ UNCHANGED << supVars, buffer, got, frames, histVars >>

\* mutant: a lag signal is written to the listener as a frame
SsePoll_LagWritesFrame(s) ==
    /\ rx[s].state = "open"
    /\ LET r == Recv(rx[s].next)
       IN  /\ r.kind # "Empty"
           /\ rx' = [ rx EXCEPT ![s].next = r.next ]
           /\ IF r.kind = "Ok"
              THEN /\ got' = [ got EXCEPT ![s] = Append(@, [ kind |-> "Ok", pos |-> r.pos, val |-> Unwrap(r.val) ]) ]
                   /\ frames' = [ frames EXCEPT ![s] = Append(@, Frame(Unwrap(r.val))) ]
              ELSE /\ got' = [ got EXCEPT ![s] = Append(@, [ kind |-> "Lagged", missed |-> r.missed, next |-> r.next ]) ]
                   /\ frames' = [ frames EXCEPT ![s] = Append(@, << "data: ", << >>, "\n\n" >>) ]
    /\ UNCHANGED << supVars, busVars, histVars >>

\* lines 159-167: the body stream is polled and the channel has an item for it
SsePoll(s) ==
    /\ rx[s].state = "open"
    /\ LET r == Recv(rx[s].next)
       IN  /\ r.kind # "Empty"
           /\ rx' = [ rx EXCEPT ![s].next = r.next ]
           /\ IF r.kind = "Ok"
              THEN /\ got' = [ got EXCEPT ![s] = Append(@, [ kind |-> "Ok", pos |-> r.pos, val |-> Unwrap(r.val) ]) ]
                   /\ frames' = [ frames EXCEPT ![s] = Append(@, Frame(Unwrap(r.val))) ]
              ELSE /\ got' = [ got EXCEPT ![s] = Append(@, [ kind |-> "Lagged", missed |-> r.missed, next |-> r.next ]) ]
                   /\ frames' = frames
    /\ UNCHANGED << supVars, busVars, histVars >>

\* mutant: a disconnect tears down every receiver of the channel
Detach_ClosesChannel(s) ==
    /\ rx[s].state = "open"
    /\ rx' = [ t \in Subs |-> IF rx[t].state = "open"
                              THEN [ state |-> "closed", next |-> 0, since |-> 0 ]
                              ELSE rx[t] ]
    /\ tail' = [ tail EXCEPT !.rx_cnt = 0 ]
    /\ UNCHANGED << supVars, buffer, got, frames, histVars >>

\* the listener disconnects: the body, the stream and its Receiver are dropped
Detach(s) ==
    /\ rx[s].state = "open"
    /\ rx' = [ rx EXCEPT ![s] = [ state |-> "closed", next |-> 0, since |-> 0 ] ]
    /\ tail' = [ tail EXCEPT !.rx_cnt = @ - 1 ]
    /\ UNCHANGED << supVars, buffer, got, frames, histVars >>

ListenersOf(S) ==
    \E s \in S :
        \/ Attach(s)
        \/ SsePoll(s)
        \/ Detach(s)

\* the supervisor while the upstream neither fails nor closes
SupervisorConnected ==
    \/ CallSubscribeOnce
    \/ ConnectOk
    \/ SubscribeOk
    \/ SendRequestOk
    \/ \E update \in StreamUpdates(Len(classified)) : ReadUpdate(update)

---------------------------------------------------------------------------
(* Specifications *)

\* the whole program
Next == Supervisor \/ ListenersOf(Subs)

Spec == Init /\ [][Next]_vars

\* the supervisor over every upstream outcome, with one listener coming and going
SupervisorNext == Supervisor \/ ListenersOf({ 1 })

SupervisorSpec == Init /\ [][SupervisorNext]_vars

\* the tokio runtime keeps running the supervisor task, and its timer fires
FairSupervisorSpec ==
    SupervisorSpec /\ WF_vars(CallSubscribeOnce) /\ WF_vars(SleepElapsed)

\* the channel and all its listeners during the lifetime of one upstream connection
BusNext == SupervisorConnected \/ ListenersOf(Subs)

BusSpec == Init /\ [][BusNext]_vars

\* the stream delivers the marked update
ClassifierRead ==
    /\ ~probe.read
    /\ ReadUpdate(probe.update)

\* Init with the marked update drawn from ClassifierInputs
ClassifierInit ==
    /\ pc = "call"
    /\ backoff = InitialBackoff
    /\ active = 0
    /\ fails = 0
    /\ cleanSeen = FALSE
    /\ prevBackoff = 0
    /\ classified = << >>
    /\ sent = << >>
    /\ tail = [ pos |-> 0, rx_cnt |-> 0 ]
    /\ buffer = [ i \in 0..(Capacity - 1) |-> [ pos |-> i - Capacity, val |-> None ] ]
    /\ rx = [ s \in Subs |-> [ state |-> "none", next |-> 0, since |-> 0 ] ]
    /\ got = [ s \in Subs |-> << >> ]
    /\ frames = [ s \in Subs |-> << >> ]
    /\ probe \in { Unread(update) : update \in ClassifierInputs }

\* Init with a given marked update
InitWith(update) ==
    /\ pc = "call"
    /\ backoff = InitialBackoff
    /\ active = 0
    /\ fails = 0
    /\ cleanSeen = FALSE
    /\ prevBackoff = 0
    /\ classified = << >>
    /\ sent = << >>
    /\ tail = [ pos |-> 0, rx_cnt |-> 0 ]
    /\ buffer = [ i \in 0..(Capacity - 1) |-> [ pos |-> i - Capacity, val |-> None ] ]
    /\ rx = [ s \in Subs |-> [ state |-> "none", next |-> 0, since |-> 0 ] ]
    /\ got = [ s \in Subs |-> << >> ]
    /\ frames = [ s \in Subs |-> << >> ]
    /\ probe = Unread(update)

\* the updates subscribe_once skips, one of each kind, and one it publishes
SkippedInputs ==
    MalformedInputs \cup
    { TxUpdateOf(1, Utf8(LogSwap), << 9 >>, FullTransaction,
                 << >>, << [ mint |-> Some(MintApump) ] >>),
      TxUpdateOf(1, Utf8(LogCreate), << 9 >>,
                 Some([ signatures |-> << << 5 >> >>, message |-> None ]),
                 << >>, << [ mint |-> Some(MintApump) ] >>),
      TxUpdateOf(1, Utf8(LogCreate), << 9 >>,
                 Some([ signatures |-> << << 5 >> >>,
                        message |-> Some([ account_keys |-> << >> ]) ]),
                 << >>, << [ mint |-> Some(MintApump) ] >>),
      TxUpdateOf(9, Utf8(LogCreateV2), << 9 >>, FullTransaction,
                 << >>, << [ mint |-> Some(MintApump) ] >>) }

\* the whole supervisor, one listener, and a stream that also delivers a marked update
SkipInit == \E update \in SkippedInputs : InitWith(update)

SkipNext == Supervisor \/ ClassifierRead \/ ListenersOf({ 1 })

SkipSpec == SkipInit /\ [][SkipNext]_vars

\* the supervisor connects and the stream delivers the marked update
ClassifierNext ==
    \/ CallSubscribeOnce
    \/ ConnectOk
    \/ SubscribeOk
    \/ SendRequestOk
    \/ ClassifierRead

ClassifierSpec == ClassifierInit /\ [][ClassifierNext]_vars

TypeOK ==
    /\ pc \in { "call", "connect", "subscribe", "send_request", "streaming", "sleeping" }
    /\ backoff \in 1..MaxBackoff
    /\ active \in 0..1
    /\ fails \in 0..MaxFails
    /\ cleanSeen \in BOOLEAN
    /\ prevBackoff \in 0..MaxBackoff
    /\ Len(classified) <= MaxEvents
    /\ tail.pos \in 0..MaxEvents
    /\ tail.rx_cnt = Cardinality({ s \in Subs : rx[s].state = "open" })

---------------------------------------------------------------------------
(* Properties of the supervisor *)

\* the supervisor is inside a call of subscribe_once
InAttempt == pc \in { "connect", "subscribe", "send_request", "streaming" }

\* C1: from process start, with no clean close so far, the delay slept after the
\* k-th consecutive failed attempt is min(2^(k-1), 30) seconds: 1, 2, 4, 8, 16, 30, 30, ...
\* (the delay is the value of backoff while the supervisor sleeps; k is exact below MaxFails)
C1_BackoffSequence ==
    (pc = "sleeping" /\ ~cleanSeen /\ fails < MaxFails)
        => (fails >= 1 /\ backoff = Min(Pow2(fails - 1), MaxBackoff))

\* the sixth consecutive failure is followed by the capped delay of 30 s
C1_Witness ==
    pc = "sleeping" /\ ~cleanSeen /\ fails = 6 /\ backoff = 30 /\ prevBackoff = 30

\* C2: whenever an attempt ends with a clean close (the sleep that follows a clean
\* close is the one entered with fails = 0), the delay slept is exactly 1 s,
\* whatever backoff was when the stream ended
C2_CleanCloseSleepsOne ==
    (pc = "sleeping" /\ fails = 0) => (cleanSeen /\ backoff = InitialBackoff)

\* a clean close that found backoff at the 30 s cap is followed by a sleep of 1 s
C2_Witness ==
    pc = "sleeping" /\ fails = 0 /\ prevBackoff = MaxBackoff /\ backoff = InitialBackoff

\* C3: the supervisor has no terminal state: whenever it is outside an attempt (an
\* attempt has just failed or closed, it sleeps, or it is at the head of the loop)
\* it eventually starts a new connection attempt
C3_AlwaysRetries == (~InAttempt) ~> (pc = "connect")

\* a new attempt has started after a clean close and a later failure
C3_Witness == pc = "connect" /\ cleanSeen /\ fails >= 1

\* C10: at most one call of subscribe_once is in flight, none while the supervisor
\* sleeps or is at the head of the loop; an attempt starts only from the head of the
\* loop, which is reached only from the sleep that follows the previous attempt
C10_OneAttemptAtATime ==
    /\ [](/\ active <= 1
          /\ (InAttempt => active = 1)
          /\ (~InAttempt => active = 0))
    /\ [][/\ (~InAttempt /\ InAttempt') => (pc = "call" /\ pc' = "connect" /\ active = 0)
          /\ (pc # "call" /\ pc' = "call") => (pc = "sleeping" /\ active = 0)
          /\ (InAttempt /\ ~InAttempt') => pc' = "sleeping"]_vars

\* a second attempt is streaming, alone, after the first one failed
C10_Witness == pc = "streaming" /\ active = 1 /\ fails >= 1

---------------------------------------------------------------------------
(* Properties of the channel and its listeners *)

IsOk(e) == e.ok

\* the events that entered the ring, in order: position p of the channel holds PublishedLog[p + 1]
PublishedLog == LET oks == SelectSeq(sent, IsOk) IN [ i \in 1..Len(oks) |-> oks[i].val ]

\* the events handed to send, in order
SendLog == [ i \in 1..Len(sent) |-> sent[i].val ]

Last(q) == q[Len(q)]

IsOpen(s) == rx[s].state = "open"

NeverLagged(s) == \A i \in 1..Len(got[s]) : got[s][i].kind = "Ok"

\* the next create the stream can deliver
NextCreate == CreateUpdate(Len(classified) + 1)

\* C4 as stated: every event the classifier returned is in the bus, once and in read
\* order, however many listeners were attached when it was read
C4_Original == PublishedLog = classified

\* C4, amended: every event the classifier returned is handed to send exactly once, in
\* read order, and nothing else is; the event enters the ring (once, at the tail) when
\* at least one listener is attached at that moment and is dropped when none is
C4_PublishOncePerEvent ==
    /\ [](/\ SendLog = classified
          /\ tail.pos = Len(PublishedLog)
          /\ \A p \in Max(0, tail.pos - Capacity)..(tail.pos - 1) :
                buffer[p % Capacity] = [ pos |-> p, val |-> Some(PublishedLog[p + 1]) ])
    /\ [][sent' # sent =>
            /\ Len(sent') = Len(sent) + 1
            /\ Last(sent').ok = (tail.rx_cnt > 0)
            /\ tail'.pos = tail.pos + (IF tail.rx_cnt > 0 THEN 1 ELSE 0)]_vars

\* one event was dropped for want of a listener, a later one entered the ring with
\* three listeners attached
C4_Witness ==
    /\ Len(sent) = 2
    /\ ~sent[1].ok
    /\ sent[2].ok
    /\ tail.rx_cnt = 3
    /\ PublishedLog = << classified[2] >>

\* C5: the publisher is never blocked: while the supervisor is streaming, reading the
\* next update and publishing its event is enabled (MaxEvents bounds the run only),
\* whatever the cursors of the listeners are
C5_PublishNeverBlocks ==
    (pc = "streaming" /\ Len(classified) < MaxEvents)
        => \A update \in StreamUpdates(Len(classified)) : ENABLED ReadUpdate(update)

\* an open listener has had an unread event overwritten and the ring again holds
\* Capacity events it has not read, while the publisher can still publish
C5_Witness ==
    /\ pc = "streaming"
    /\ Len(classified) < MaxEvents
    /\ \E s \in Subs :
          /\ IsOpen(s)
          /\ rx[s].next = 0
          /\ tail.pos - rx[s].next > Capacity

\* C6: an attached listener that has not lagged has received exactly the events
\* published since it attached, up to its cursor, each once and in publish order (all
\* of them once it has caught up); and two listeners that never lagged got the events
\* they share in the same order
C6_InOrderDelivery ==
    /\ \A s \in Subs :
          (IsOpen(s) /\ NeverLagged(s)) =>
              /\ Len(got[s]) = rx[s].next - rx[s].since
              /\ \A i \in 1..Len(got[s]) : got[s][i].val = PublishedLog[rx[s].since + i]
    /\ \A s, t \in Subs :
          (NeverLagged(s) /\ NeverLagged(t)) =>
              \A i, j \in 1..Len(got[s]) : \A k, l \in 1..Len(got[t]) :
                  (i < j /\ got[s][i].val = got[t][k].val /\ got[s][j].val = got[t][l].val)
                      => k < l

\* a listener attached before the first publish has received all MaxEvents events,
\* and one attached later has received the last two of them
C6_Witness ==
    \E s, t \in Subs :
        /\ IsOpen(s) /\ rx[s].since = 0 /\ NeverLagged(s)
        /\ [ i \in 1..Len(got[s]) |-> got[s][i].val ] = classified
        /\ Len(classified) = MaxEvents
        /\ IsOpen(t) /\ rx[t].since = MaxEvents - 2 /\ NeverLagged(t)
        /\ Len(got[t]) = 2

\* the items of listener s's stream are consistent with one pass over the channel
GotInOrder(s) ==
    \A i \in 1..Len(got[s]) :
        LET item == got[s][i]
        IN  /\ item.kind = "Ok" => item.val = PublishedLog[item.pos + 1]
            /\ item.kind = "Lagged" =>
                   /\ item.missed > 0
                   /\ \A j \in 1..(i - 1) : got[s][j].kind = "Ok" => got[s][j].pos < item.next - item.missed
            /\ i < Len(got[s]) =>
                   LET after == got[s][i + 1]
                   IN  /\ (item.kind = "Ok" /\ after.kind = "Ok") => after.pos = item.pos + 1
                       /\ (item.kind = "Lagged" /\ after.kind = "Ok") => after.pos = item.next
            /\ \A j \in 1..(i - 1) :
                   (item.kind = "Ok" /\ got[s][j].kind = "Ok") => got[s][j].pos < item.pos

\* listener s has had a lag signal as the last item of its stream in this step
LagSignalled(s) ==
    /\ Len(got'[s]) = Len(got[s]) + 1
    /\ Last(got'[s]).kind = "Lagged"

\* C7: a listener whose backlog exceeds Capacity gets a lag signal at its next poll
\* (and only such a listener does); the signal moves its cursor to the oldest retained
\* event, so the poll after it yields that event and not a second signal; its later
\* items are the retained events in publish order, never one it already had; and
\* the publisher stays enabled while a listener is lagging
C7_LagOncePerGap ==
    /\ [](/\ \A s \in Subs :
                IsOpen(s) => ((tail.pos - rx[s].next > Capacity) <=> (Recv(rx[s].next).kind = "Lagged"))
          /\ \A s \in Subs : GotInOrder(s)
          /\ (/\ pc = "streaming"
              /\ Len(classified) < MaxEvents
              /\ \E s \in Subs : IsOpen(s) /\ tail.pos - rx[s].next > Capacity)
                 => \A update \in { NextCreate } : ENABLED ReadUpdate(update))
    /\ [][\A s \in Subs :
            LagSignalled(s) =>
                /\ tail.pos - rx[s].next > Capacity
                /\ rx'[s].next = tail.pos - Capacity
                /\ Last(got'[s]).missed = rx'[s].next - rx[s].next
                /\ Recv(rx[s].next)'.kind = "Ok"
                /\ Recv(rx[s].next)'.pos = tail.pos - Capacity
                /\ UNCHANGED << tail, buffer, frames, supVars >>]_vars

\* a listener read one event, fell more than Capacity behind, was told so once and
\* then read the two retained events
C7_Witness ==
    \E s \in Subs :
        /\ Len(got[s]) = 4
        /\ got[s][1].kind = "Ok"
        /\ got[s][2].kind = "Lagged"
        /\ got[s][3].kind = "Ok"
        /\ got[s][4].kind = "Ok"
        /\ got[s][3].pos = got[s][1].pos + 1 + got[s][2].missed

\* the positions of the events listener s has been delivered
OkPositions(s) == { got[s][i].pos : i \in { j \in 1..Len(got[s]) : got[s][j].kind = "Ok" } }

\* C8 as stated: a listener is never delivered an event published before it
\* subscribed, and the first event it is delivered is the first one published after
C8_Original ==
    \A s \in Subs :
        IsOpen(s) =>
            /\ \A p \in OkPositions(s) : p >= rx[s].since
            /\ OkPositions(s) # {} => rx[s].since \in OkPositions(s)

\* C8, amended: a listener is never delivered an event published before it
\* subscribed, retained or not; the first event it is delivered is the first one
\* published after it subscribed unless a lag signal came first (it was more than
\* Capacity events behind at its first poll), and then it is a later one
C8_NoReplayOfHistory ==
    \A s \in Subs :
        IsOpen(s) =>
            /\ \A p \in OkPositions(s) : p >= rx[s].since
            /\ \A i \in 1..Len(got[s]) : got[s][i].kind = "Ok" => got[s][i].val = PublishedLog[got[s][i].pos + 1]
            /\ (Len(got[s]) > 0 /\ got[s][1].kind = "Ok") => got[s][1].pos = rx[s].since
            /\ (Len(got[s]) > 0 /\ got[s][1].kind = "Lagged") => got[s][1].next > rx[s].since

\* a listener subscribed while the ring retained an earlier event, and the first
\* event it was delivered is the one published next
C8_Witness ==
    \E s \in Subs :
        /\ IsOpen(s)
        /\ rx[s].since >= 1
        /\ Len(got[s]) = 1
        /\ got[s][1].kind = "Ok"
        /\ got[s][1].pos = rx[s].since
        /\ buffer[(rx[s].since - 1) % Capacity].pos = rx[s].since - 1

\* C9: a disconnect changes nothing for the other listeners (their cursors, what they
\* have received, what their next poll yields) nor for the ring and the supervisor;
\* the channel counts exactly the listeners still attached; with a listener gone, the
\* next poll of an attached listener that is behind the tail (by no more than
\* Capacity) still yields its next unread event; and with one listener gone and the
\* others attached the publisher stays enabled
C9_DetachIsLocal ==
    /\ [](/\ tail.rx_cnt = Cardinality({ s \in Subs : IsOpen(s) })
          /\ \A s, t \in Subs :
                (rx[s].state = "closed" /\ IsOpen(t) /\ rx[t].next < tail.pos
                                        /\ tail.pos - rx[t].next <= Capacity)
                    => Recv(rx[t].next) = [ kind |-> "Ok", next |-> rx[t].next + 1,
                                            pos |-> rx[t].next,
                                            val |-> Some(PublishedLog[rx[t].next + 1]) ]
          /\ (/\ pc = "streaming"
              /\ Len(classified) < MaxEvents
              /\ \E s \in Subs : rx[s].state = "closed" /\ \A t \in Subs \ { s } : IsOpen(t))
                 => \A update \in { NextCreate } : ENABLED ReadUpdate(update))
    /\ [][\A s \in Subs :
            (IsOpen(s) /\ rx'[s].state = "closed") =>
                /\ \A t \in Subs \ { s } :
                      /\ rx'[t] = rx[t]
                      /\ got'[t] = got[t]
                      /\ frames'[t] = frames[t]
                      /\ IsOpen(t) => Recv(rx[t].next)' = Recv(rx[t].next)
                /\ buffer' = buffer
                /\ tail'.pos = tail.pos
                /\ tail'.rx_cnt = tail.rx_cnt - 1
                /\ UNCHANGED << supVars, histVars >>]_vars

\* three listeners received the first event, one of them then disconnected, and the
\* two that remain have received the next event as well
C9_Witness ==
    \E s \in Subs :
        /\ rx[s].state = "closed"
        /\ Len(got[s]) = 1
        /\ got[s][1].kind = "Ok"
        /\ got[s][1].pos = 0
        /\ \A t \in Subs \ { s } :
              /\ IsOpen(t)
              /\ Len(got[t]) = 2
              /\ got[t][1] = got[s][1]
              /\ got[t][2].kind = "Ok"
              /\ got[t][2].pos = 1

---------------------------------------------------------------------------
(* Properties of the classifier *)

IsTransaction(update) ==
    IsSome(update.update_oneof) /\ Unwrap(update.update_oneof).kind = "Transaction"

\* the transaction envelope of a transaction update, as an Option
EnvelopeOf(update) == Unwrap(update.update_oneof).tx_info.transaction

\* the log text of an update, None when a part is missing or the bytes do not decode
LogTextOf(update) ==
    IF /\ IsTransaction(update)
       /\ IsSome(EnvelopeOf(update))
       /\ IsSome(Unwrap(EnvelopeOf(update)).meta)
       /\ IsSome(Unwrap(Unwrap(EnvelopeOf(update)).meta).log_messages)
       /\ Unwrap(Unwrap(Unwrap(EnvelopeOf(update)).meta).log_messages).utf8
    THEN Some(Unwrap(Unwrap(Unwrap(EnvelopeOf(update)).meta).log_messages).text)
    ELSE None

HasProgramAddress(update) ==
    IsSome(LogTextOf(update)) /\ Contains(Unwrap(LogTextOf(update)), << pump_fun_program_id >>)

\* the text "Instruction: Create" occurs in the logs (it also begins
\* "Instruction: CreateV2" and any other instruction name that starts with Create)
HasCreateText(update) ==
    IsSome(LogTextOf(update)) /\ Contains(Unwrap(LogTextOf(update)), << "Instruction: ", "Create" >>)

\* the read of the marked update returned no event and published nothing
NoEvent == probe.result = None /\ classified = << >> /\ sent = << >> /\ tail.pos = 0

Extractable(update) ==
    /\ IsTransaction(update)
    /\ IsSome(EnvelopeOf(update))
    /\ IsSome(ExtractSignature(Unwrap(EnvelopeOf(update))))
    /\ IsSome(ExtractCreator(Unwrap(EnvelopeOf(update))))
    /\ IsSome(ExtractMint(Unwrap(EnvelopeOf(update))))

\* C12: once an update whose logs contain the program address, "Instruction: Create"
\* and "CreateV2" has been read, the predicate was true through the V2 branch (so an
\* event was returned when signature, creator and mint could be extracted); and the
\* plain-create branch and the V2 branch are never both true of a log text
C12_BothMarkersFollowV2 ==
    (probe.read /\ IsSome(LogTextOf(probe.update))) =>
        LET log_str == Unwrap(LogTextOf(probe.update))
        IN  /\ (/\ has_pump_fun(log_str)
                /\ Contains(log_str, << "Instruction: ", "Create" >>)
                /\ Contains(log_str, << "Create", "V2" >>))
                   => /\ is_create_v2(log_str)
                      /\ Extractable(probe.update) => IsSome(probe.result)
            /\ ~(is_create(log_str) /\ is_create_v2(log_str))

\* the update passes the match step and its signature and creator can be extracted
Matching(update) ==
    /\ IsSome(LogTextOf(update))
    /\ has_pump_fun(Unwrap(LogTextOf(update)))
    /\ is_create(Unwrap(LogTextOf(update))) \/ is_create_v2(Unwrap(LogTextOf(update)))
    /\ IsSome(ExtractSignature(Unwrap(EnvelopeOf(update))))
    /\ IsSome(ExtractCreator(Unwrap(EnvelopeOf(update))))

PreOf(update) == Unwrap(Unwrap(EnvelopeOf(update)).meta).pre_token_balances

PostOf(update) == Unwrap(Unwrap(EnvelopeOf(update)).meta).post_token_balances

\* mint m is named by an entry of the pre-balance list
InPre(update, m) == \E j \in 1..Len(PreOf(update)) : PreOf(update)[j].mint = Some(m)

\* entry i of the post-balance list names a mint absent from the pre-balance list
NewAt(update, i) ==
    /\ IsSome(PostOf(update)[i].mint)
    /\ ~InPre(update, Unwrap(PostOf(update)[i].mint))

\* entry i of the post-balance list is a candidate as the spec defines it: a new mint
\* that is not the all-'1' placeholder address
SpecCandidateAt(update, i) ==
    /\ NewAt(update, i)
    /\ Unwrap(PostOf(update)[i].mint) # SystemProgramOnes

PumpCandidateAt(update, i) ==
    /\ SpecCandidateAt(update, i)
    /\ EndsWith(Unwrap(PostOf(update)[i].mint), << "p", "u", "m", "p" >>)

\* the least index of a non-empty set of indices
Least(S) == CHOOSE i \in S : \A j \in S : i <= j

\* C13: once a matching update has been read, the event's mint is not a mint of the
\* pre-list; when some candidate ends with "pump" the event carries the first such
\* candidate in post-list order, otherwise it carries the first candidate
C13_MintSelection ==
    (probe.read /\ Matching(probe.update)) =>
        LET update == probe.update
            cands  == { i \in 1..Len(PostOf(update)) : SpecCandidateAt(update, i) }
            pumps  == { i \in 1..Len(PostOf(update)) : PumpCandidateAt(update, i) }
        IN  /\ IsSome(probe.result) => ~InPre(update, Unwrap(probe.result).mint_address)
            /\ pumps # {} =>
                  /\ IsSome(probe.result)
                  /\ Some(Unwrap(probe.result).mint_address) = PostOf(update)[Least(pumps)].mint
            /\ (pumps = {} /\ cands # {}) =>
                  /\ IsSome(probe.result)
                  /\ Some(Unwrap(probe.result).mint_address) = PostOf(update)[Least(cands)].mint

\* the update is a transaction with an envelope and metadata
HasMeta(update) ==
    /\ IsTransaction(update)
    /\ IsSome(EnvelopeOf(update))
    /\ IsSome(Unwrap(EnvelopeOf(update)).meta)

\* C14: once an update whose post-balance list names no mint absent from the
\* pre-balance list (the empty post list included) has been read, no event was
\* returned and nothing was published, also when the logs match and signature and
\* creator can be extracted
C14_NoNewMintNoEvent ==
    (/\ probe.read
     /\ HasMeta(probe.update)
     /\ \A i \in 1..Len(PostOf(probe.update)) : ~NewAt(probe.update, i))
        => NoEvent

\* a matching update with signature and creator, whose two post-balance mints are both
\* in the pre-balance list, was read and gave no event
C14_Witness ==
    /\ probe.read
    /\ probe.update = TxUpdateOf(1, Utf8(LogCreate), << 9 >>, FullTransaction,
                                 << [ mint |-> Some(MintB) ], [ mint |-> Some(MintApump) ] >>,
                                 << [ mint |-> Some(MintApump) ], [ mint |-> Some(MintB) ] >>)
    /\ Matching(probe.update)
    /\ NoEvent

\* C15: once an update has been read, an event returned for it has a non-empty
\* signature, a non-empty mint_address and a non-empty creator_address; and an update
\* from which one of the three cannot be extracted gave no event
C15_NonEmptyFields ==
    probe.read =>
        /\ IsSome(probe.result) =>
              /\ Len(Unwrap(probe.result).signature) > 0
              /\ Len(Unwrap(probe.result).mint_address) > 0
              /\ Len(Unwrap(probe.result).creator_address) > 0
        /\ ~Extractable(probe.update) => probe.result = None

\* C19: a post-balance entry is a candidate if and only if its mint is absent from the
\* pre-balance mints and is not the all-'1' placeholder address itself: for a matching
\* update that has been read, the candidates the code collects are exactly those mints
\* (a new mint with 32 '1' inside a longer address included), and an event was returned
\* exactly when there is one
C19_CandidateRule ==
    (probe.read /\ Matching(probe.update)) =>
        LET update == probe.update
            cands  == CandidateMints(PostOf(update), PreMints(PreOf(update)), 1)
            spec   == { i \in 1..Len(PostOf(update)) : SpecCandidateAt(update, i) }
        IN  /\ { cands[k] : k \in 1..Len(cands) } = { Unwrap(PostOf(update)[i].mint) : i \in spec }
            /\ IsSome(probe.result) <=> spec # {}

\* the envelope's direct signature field
DirectOf(update) == Unwrap(EnvelopeOf(update)).signature

\* the envelope's embedded signature list, empty when there is no embedded transaction
EmbeddedOf(update) ==
    IF IsSome(Unwrap(EnvelopeOf(update)).transaction)
    THEN Unwrap(Unwrap(EnvelopeOf(update)).transaction).signatures
    ELSE << >>

\* C20: once an update has been read, an event returned for it carries the base-58
\* text of the direct signature field when that field is non-empty, and of the first
\* entry of the embedded signature list when the direct field is empty; its slot is
\* the update's slot; and no event was returned when the direct field is empty and the
\* embedded list is absent or empty
C20_SignatureAndSlot ==
    (probe.read /\ IsTransaction(probe.update) /\ IsSome(EnvelopeOf(probe.update))) =>
        LET update == probe.update
        IN  /\ IsSome(probe.result) =>
                  /\ Len(DirectOf(update)) > 0 =>
                        Unwrap(probe.result).signature = bs58_encode(DirectOf(update))
                  /\ Len(DirectOf(update)) = 0 =>
                        /\ Len(EmbeddedOf(update)) > 0
                        /\ Unwrap(probe.result).signature = bs58_encode(EmbeddedOf(update)[1])
                  /\ Unwrap(probe.result).slot = Unwrap(update.update_oneof).tx_info.slot
            /\ (Len(DirectOf(update)) = 0 /\ Len(EmbeddedOf(update)) = 0) => NoEvent

\* an update in slot 5 with an empty direct field and two embedded signatures was read:
\* the event carries the first of them and slot 5
C20_Witness ==
    /\ probe.read
    /\ IsSome(probe.result)
    /\ IsTransaction(probe.update)
    /\ DirectOf(probe.update) = << >>
    /\ EmbeddedOf(probe.update) = << << 5 >>, << 6 >> >>
    /\ Unwrap(probe.result).signature = << "6" >>
    /\ Unwrap(probe.result).slot = 5

---------------------------------------------------------------------------
(* Further properties of the supervisor and of the gateway *)

\* C16: after a clean close the supervisor is as at process start: the delay slept
\* after the k-th consecutive failure that follows a clean close is min(2^(k-1), 30)
\* seconds, 1, 2, 4, ..., as in C1 (k is exact below MaxFails)
C16_CleanCloseRestartsSequence ==
    (pc = "sleeping" /\ cleanSeen /\ fails >= 1 /\ fails < MaxFails)
        => backoff = Min(Pow2(fails - 1), MaxBackoff)

\* the update has a first account key to take the creator from
HasAccountKeys(update) ==
    /\ IsSome(EnvelopeOf(update))
    /\ IsSome(Unwrap(EnvelopeOf(update)).transaction)
    /\ IsSome(Unwrap(Unwrap(EnvelopeOf(update)).transaction).message)
    /\ Len(Unwrap(Unwrap(Unwrap(EnvelopeOf(update)).transaction).message).account_keys) > 0

\* the kinds of update C17 lists: not a transaction, no envelope, no metadata, no logs
\* or logs that do not decode, no account keys
RejectedKind(update) ==
    \/ ~IsTransaction(update)
    \/ ~IsSome(LogTextOf(update))
    \/ ~HasAccountKeys(update)

\* the marked update is read in this step and process_update returns None for it
RejectedNow == ~probe.read /\ probe'.read /\ probe'.result = None

\* C17: an update of one of the listed kinds is rejected; the step that reads a
\* rejected update happens while streaming and changes nothing but the record of the
\* read: the supervisor stays in the same attempt with the same backoff, nothing is
\* sent to the channel, no attempt ends; and the stream can then deliver its next update
C17_RejectedUpdateChangesNothing ==
    /\ []((probe.read /\ RejectedKind(probe.update)) => probe.result = None)
    /\ []((probe.read /\ probe.result = None /\ pc = "streaming" /\ Len(classified) < MaxEvents)
             => \A update \in { NextCreate } : ENABLED ReadUpdate(update))
    /\ [][RejectedNow =>
            /\ pc = "streaming"
            /\ pc' = "streaming"
            /\ active' = 1
            /\ UNCHANGED << supVars, busVars, subVars, classified, sent >>]_vars

\* logs that do not decode were read during the third attempt, whose backoff is 4 s,
\* with the listener attached; the attempt is still streaming and has classified a
\* create of the stream since
C17_Witness ==
    /\ probe.read
    /\ probe.result = None
    /\ probe.update = TxUpdateOf(1, Some([ utf8 |-> FALSE, text |-> LogCreate ]), << 9 >>,
                                 FullTransaction, << >>, << [ mint |-> Some(MintApump) ] >>)
    /\ pc = "streaming"
    /\ backoff = 4
    /\ fails = 2
    /\ IsOpen(1)
    /\ Len(sent) = 1
    /\ sent[1].ok

IsOkItem(item) == item.kind = "Ok"

\* the frames of the events listener s's subscription has delivered, in delivery order
FramesOfDelivered(s) ==
    LET oks == SelectSeq(got[s], IsOkItem)
    IN  [ i \in 1..Len(oks) |-> Frame(oks[i].val) ]

\* C18: the frames written to a listener are exactly the frames of the events its
\* subscription delivered, one per event and in delivery order; a lag signal writes
\* no frame and leaves the listener attached; and a listener whose last item is a lag
\* signal has a retained event to read, so its next poll is enabled
C18_LagWritesNoFrame ==
    /\ [](\A s \in Subs :
            /\ frames[s] = FramesOfDelivered(s)
            /\ (IsOpen(s) /\ Len(got[s]) > 0 /\ Last(got[s]).kind = "Lagged") =>
                  /\ rx[s].next < tail.pos
                  /\ \A t \in { s } : ENABLED SsePoll(t))
    /\ [][\A s \in Subs :
            LagSignalled(s) =>
                /\ frames'[s] = frames[s]
                /\ rx'[s].state = "open"
                /\ tail'.rx_cnt = tail.rx_cnt]_vars

\* a listener was written one frame, then had a lag signal, and was then written the
\* frames of the two events published after the gap: three frames for four items
C18_Witness ==
    \E s \in Subs :
        /\ IsOpen(s)
        /\ Len(got[s]) = 4
        /\ got[s][2].kind = "Lagged"
        /\ Len(frames[s]) = 3
        /\ frames[s] = << Frame(got[s][1].val), Frame(got[s][3].val), Frame(got[s][4].val) >>
        /\ got[s][4].pos = MaxEvents - 1

=============================================================================
